---- MODULE Spec2Model ----
(***************************************************************************)
(* dimland: one dimming layer-shell overlay per Wayland output.            *)
(*                                                                         *)
(* The model follows src/src/main.rs: the dispatch loop of main, the       *)
(* registry DimlandData.views, the handlers of OutputHandler and           *)
(* LayerShellHandler, DimlandView::draw, Drop for DimlandView and the      *)
(* pixel loop of DimlandData::create_view.                                 *)
(*                                                                         *)
(* Every call of create_view gets a fresh number, which serves as the      *)
(* identity of the layer surface, of the buffer and of the viewport that   *)
(* the call creates.  The handlers take their arguments from the event     *)
(* source: new_output announces an output that is not advertised yet,      *)
(* every other handler can be called for any output and for any layer      *)
(* surface that was ever created, tracked or not.                          *)
(***************************************************************************)
EXTENDS Integers, Sequences, FiniteSets, TLC

\* ------------------------------------------------------------------ bounds
NumOutputs == 2
MaxViews == 2
MaxDim == 1
MaxRadius == 2
\* the largest width and height, and the largest radius, of the canvases
\* that the pixel specification renders
MaxPixelDim == 10
MaxPixelRadius == 3

\* --------------------------------------------------------------- constants
DEFAULT_ALPHA == 5
DEFAULT_RADIUS == 0

Outputs == 1..NumOutputs
None == <<>>
\* (width, height) pairs an output reports or a configure event confirms:
\* one of zero area and one of positive area, neither of them square
Sizes == {<<0, MaxDim>>, <<MaxDim, MaxDim + 1>>}
\* Option<(i32, i32)> of OutputInfo.logical_size
LogicalSizes == Sizes \cup {None}
\* --alpha in tenths (0.5 is 5) and --radius, as given on the command line
AlphaArgs == {DEFAULT_ALPHA}
RadiusArgs == {DEFAULT_RADIUS, MaxRadius}

VARIABLES
  views,            \* DimlandData.views
  exit,             \* DimlandData.exit
  alpha,            \* DimlandData.alpha, in tenths
  radius,           \* DimlandData.radius
  info,             \* output_state.info(o).logical_size per advertised output
  advertised,       \* outputs announced by new_output and not destroyed since
  next_id,          \* number of the next create_view call
  buffers,          \* WlBuffer handles created and not destroyed
  viewports,        \* WpViewport handles created and not destroyed
  pc,               \* position of main: check, dispatch, done, aborted
  handled,          \* the running blocking_dispatch has handled an event
  last              \* the event handled last

vars == <<views, exit, alpha, radius, info, advertised,
          next_id, buffers, viewports, pc, handled, last>>

\* ------------------------------------------------------ pixel generation
\* AlphaByte with the cast rounding to the nearest integer
AlphaByte_rounds(a) == IF a < 0 THEN 0 ELSE (a * 255 + 5) \div 10

\* (self.alpha * 255.0) as u32: the float-to-int cast truncates and saturates
AlphaByte(a) == IF a < 0 THEN 0 ELSE (a * 255) \div 10

\* color.to_le_bytes() of 0x00000000 | alpha << 24: the bytes B, G, R, A;
\* the shift drops the bits of alpha above the low eight
BaseColor(a) == <<0, 0, 0, AlphaByte(a) % 256>>

\* color.to_le_bytes() of 0xFF000000
OpaqueBlack == <<0, 0, 0, 255>>

\* u32 values take 32 bits: 2^32 is U16 * U16
U16 == 65536

\* x > a - b, the subtraction wrapping modulo 2^32 as in the release profile
GtSub(x, a, b) ==
  IF a >= b THEN x > a - b ELSE (x + (b - a) - 1) \div U16 >= U16

\* x - (a - b) where x > a - b, the inner subtraction wrapping modulo 2^32
MinusSub(x, a, b) ==
  IF a >= b
  THEN x - (a - b)
  ELSE (((x + (b - a)) \div U16 - U16) * U16) + ((x + (b - a)) % U16)

\* u32::pow(2)
Pow2(n) == n * n

\* the first disjunct of the corner test (top left)
CornerTL(x, y, w, h, r) ==
  x < r /\ y < r /\ Pow2(r - x) + Pow2(r - y) > Pow2(r)

\* CornerTR without the test y < corner_radius
CornerTR_no_y(x, y, w, h, r) ==
  GtSub(x, w, r) /\ Pow2(MinusSub(x, w, r)) + Pow2(r - y) > Pow2(r)

\* the second disjunct (top right)
CornerTR(x, y, w, h, r) ==
  GtSub(x, w, r) /\ y < r /\ Pow2(MinusSub(x, w, r)) + Pow2(r - y) > Pow2(r)

\* the third disjunct (bottom left)
CornerBL(x, y, w, h, r) ==
  x < r /\ GtSub(y, h, r) /\ Pow2(r - x) + Pow2(MinusSub(y, h, r)) > Pow2(r)

\* the fourth disjunct (bottom right)
CornerBR(x, y, w, h, r) ==
  /\ GtSub(x, w, r)
  /\ GtSub(y, h, r)
  /\ Pow2(MinusSub(x, w, r)) + Pow2(MinusSub(y, h, r)) > Pow2(r)

\* the condition of the if: the pixel is overridden
CornerCut(x, y, w, h, r) ==
  \/ CornerTL(x, y, w, h, r)
  \/ CornerTR(x, y, w, h, r)
  \/ CornerBL(x, y, w, h, r)
  \/ CornerBR(x, y, w, h, r)

\* the bytes the closure writes for pixel (x, y)
PixelColor(x, y, w, h, a, r) ==
  IF CornerCut(x, y, w, h, r) THEN OpaqueBlack ELSE BaseColor(a)

\* a subtraction evaluated for pixel (x, y) goes below zero: with || and &&
\* short-circuiting, width - corner_radius is evaluated once the first
\* disjunct is false, height - corner_radius once x < corner_radius holds in
\* the third disjunct or x > width - corner_radius in the fourth
PixelOverflows(x, y, w, h, r) ==
  /\ ~CornerTL(x, y, w, h, r)
  /\ \/ w < r
     \/ /\ ~CornerTR(x, y, w, h, r)
        /\ (x < r \/ GtSub(x, w, r))
        /\ h < r

\* some pixel of a width x height canvas overflows
CanvasOverflows(w, h, r) ==
  \E i \in 0..(w * h - 1) : PixelOverflows(i % w, i \div w, w, h, r)

\* Canvas with the last chunk of the pool left out
Canvas_short(w, h, a, r) ==
  [i \in 1..(w * h - 1) |-> PixelColor((i - 1) % w, (i - 1) \div w, w, h, a, r)]

\* the canvas after the for_each over chunks_exact_mut(4), a chunk per pixel
Canvas(w, h, a, r) ==
  [i \in 1..(w * h) |-> PixelColor((i - 1) % w, (i - 1) \div w, w, h, a, r)]

\* ------------------------------------------------------------- the views
\* (width, height) that create_view reads from output_state
ViewSize(size) == IF size = None THEN <<0, 0>> ELSE size

\* NewView for a create_view that attaches the buffer before its commit
NewView_attaches(id, output, w, h, a, r) ==
  [ first_configure |-> TRUE,
    width |-> 0,
    height |-> 0,
    buffer |-> [id |-> id, width |-> w, height |-> h,
                pixels |-> Canvas(w, h, a, r)],
    viewport |-> [id |-> id, dest |-> None],
    layer |-> id,
    output |-> output,
    attached |-> 1,
    commits |-> 1 ]

\* DimlandView::new, called at the end of create_view
NewView(id, output, w, h, a, r) ==
  [ first_configure |-> TRUE,
    width |-> 0,
    height |-> 0,
    buffer |-> [id |-> id, width |-> w, height |-> h,
                pixels |-> Canvas(w, h, a, r)],
    viewport |-> [id |-> id, dest |-> None],
    layer |-> id,
    output |-> output,
    attached |-> 0,
    commits |-> 1 ]

\* the view create_view returns for an output reporting size
create_view(id, output, size, a, r) ==
  NewView(id, output, ViewSize(size)[1], ViewSize(size)[2], a, r)

\* what a call of create_view can come to: the viewporter or the pool fails,
\* or nothing fails and u32 overflow either wraps (as the release profile
\* builds it) or panics (as the debug profile builds it)
BuildOutcomes == {"viewporter", "pool", "wrapping", "checked"}

\* CreateViewPanics with the Err of RawPool::new skipped instead of unwrapped
CreateViewPanics_pool_skips(size, r, outcome) ==
  \/ outcome = "viewporter"
  \/ /\ outcome = "checked"
     /\ CanvasOverflows(ViewSize(size)[1], ViewSize(size)[2], r)

\* create_view panics: expect("wp_viewporter failed"), unwrap() of
\* RawPool::new, or a subtraction that overflows where overflow is checked
CreateViewPanics(size, r, outcome) ==
  \/ outcome \in {"viewporter", "pool"}
  \/ /\ outcome = "checked"
     /\ CanvasOverflows(ViewSize(size)[1], ViewSize(size)[2], r)

\* draw returning before the attach whatever first_configure is
draw_skips(view) == view

\* DimlandView::draw
draw(view) ==
  IF ~view.first_configure
  THEN view
  ELSE [view EXCEPT !.attached = @ + 1, !.commits = @ + 1]

\* FindLayer falling back to the first view when no view has the layer surface
FindLayer_fallback(vs, l) ==
  IF \E i \in 1..Len(vs) : vs[i].layer = l
  THEN CHOOSE i \in 1..Len(vs) :
         vs[i].layer = l /\ \A j \in 1..(i - 1) : vs[j].layer # l
  ELSE IF Len(vs) > 0 THEN 1 ELSE 0

\* views.iter_mut().find(|view| &view.layer == layer): the index of the
\* first view with that layer surface, or 0
FindLayer(vs, l) ==
  IF \E i \in 1..Len(vs) : vs[i].layer = l
  THEN CHOOSE i \in 1..Len(vs) :
         vs[i].layer = l /\ \A j \in 1..(i - 1) : vs[j].layer # l
  ELSE 0

\* views.iter_mut().find(|v| v.output == new_view.output): the index of the
\* first view bound to that output, or 0
FindOutput(vs, o) ==
  IF \E i \in 1..Len(vs) : vs[i].output = o
  THEN CHOOSE i \in 1..Len(vs) :
         vs[i].output = o /\ \A j \in 1..(i - 1) : vs[j].output # o
  ELSE 0

\* the identities the views of a list hold
LayersOf(vs) == {vs[i].layer : i \in 1..Len(vs)}
OutputsOf(vs) == {vs[i].output : i \in 1..Len(vs)}
BufferIdsOf(vs) == {vs[i].buffer.id : i \in 1..Len(vs)}
ViewportIdsOf(vs) == {vs[i].viewport.id : i \in 1..Len(vs)}

\* the event record kept in last
Event(kind, arg, size, tracked, live) ==
  [kind |-> kind, arg |-> arg, size |-> size, tracked |-> tracked,
   live |-> live]

\* ---------------------------------------------------------------- Init
Init ==
  /\ views = <<>>
  /\ exit = FALSE
  /\ alpha \in AlphaArgs
  /\ radius \in RadiusArgs
  /\ info = [o \in Outputs |-> None]
  /\ advertised = {}
  /\ next_id = 1
  /\ buffers = {}
  /\ viewports = {}
  /\ pc = "check"
  /\ handled = FALSE
  /\ last = Event("init", 0, None, FALSE, FALSE)

\* ------------------------------------------------------------ the loop
args == <<alpha, radius>>

\* while !data.should_exit()
should_exit ==
  /\ pc = "check"
  /\ pc' = IF exit THEN "done" ELSE "dispatch"
  /\ handled' = FALSE
  /\ UNCHANGED <<views, exit, args, info, advertised, next_id, buffers,
                 viewports, last>>

\* blocking_dispatch returns Ok after the events it read were handled
dispatch_returns ==
  /\ pc = "dispatch"
  /\ handled
  /\ pc' = "check"
  /\ UNCHANGED <<views, exit, args, info, advertised, next_id, buffers,
                 viewports, handled, last>>

\* blocking_dispatch returns Err: expect("sus") panics
dispatch_fails ==
  /\ pc = "dispatch"
  /\ pc' = "aborted"
  /\ UNCHANGED <<views, exit, args, info, advertised, next_id, buffers,
                 viewports, handled, last>>

\* -------------------------------------------------------- the handlers
\* a handler that panics inside create_view ends the process
Panic(ev) ==
  /\ pc' = "aborted"
  /\ handled' = TRUE
  /\ last' = ev
  /\ UNCHANGED <<views, exit, args, advertised, next_id, buffers, viewports>>

\* Drop for DimlandView without self.buffer.destroy()
DropBuffers_leaks(bs, dropped) == bs

\* Drop for DimlandView: the handles left once the views of dropped are gone
DropBuffers(bs, dropped) == bs \ BufferIdsOf(dropped)
DropViewports(vps, dropped) == vps \ ViewportIdsOf(dropped)

\* OutputHandler::new_output
new_output(o, size, outcome) ==
  LET ev == Event("new_output", o, size, o \in OutputsOf(views), FALSE) IN
  /\ pc = "dispatch"
  /\ o \notin advertised
  /\ next_id <= MaxViews
  /\ info' = [info EXCEPT ![o] = size]
  /\ IF CreateViewPanics(size, radius, outcome)
     THEN Panic(ev)
     ELSE /\ views' = Append(views, create_view(next_id, o, size, alpha, radius))
          /\ next_id' = next_id + 1
          /\ buffers' = buffers \cup {next_id}
          /\ viewports' = viewports \cup {next_id}
          /\ advertised' = advertised \cup {o}
          /\ handled' = TRUE
          /\ last' = ev
          /\ UNCHANGED <<exit, args, pc>>

\* ReplaceView carrying the configured state of the old view over
ReplaceView_keeps_state(vs, new_view) ==
  LET idx == FindOutput(vs, new_view.output) IN
  IF idx # 0
  THEN [vs EXCEPT ![idx] = [new_view EXCEPT
                              !.first_configure = vs[idx].first_configure,
                              !.width = vs[idx].width,
                              !.height = vs[idx].height]]
  ELSE vs

\* the views after update_output swapped new_view in
ReplaceView(vs, new_view) ==
  LET idx == FindOutput(vs, new_view.output) IN
  IF idx # 0 THEN [vs EXCEPT ![idx] = new_view] ELSE vs

\* the views update_output drops: the replaced one, or new_view itself
ReplaceDropped(vs, new_view) ==
  LET idx == FindOutput(vs, new_view.output) IN
  IF idx # 0 THEN <<vs[idx]>> ELSE <<new_view>>

\* OutputHandler::update_output
update_output(o, size, outcome) ==
  LET ev == Event("update_output", o, size, o \in OutputsOf(views), FALSE)
      new_view == create_view(next_id, o, size, alpha, radius)
      dropped == ReplaceDropped(views, new_view) IN
  /\ pc = "dispatch"
  /\ next_id <= MaxViews
  /\ info' = IF o \in advertised THEN [info EXCEPT ![o] = size] ELSE info
  /\ IF CreateViewPanics(size, radius, outcome)
     THEN Panic(ev)
     ELSE /\ views' = ReplaceView(views, new_view)
          /\ next_id' = next_id + 1
          /\ buffers' = DropBuffers(buffers \cup {next_id}, dropped)
          /\ viewports' = DropViewports(viewports \cup {next_id}, dropped)
          /\ handled' = TRUE
          /\ last' = ev
          /\ UNCHANGED <<exit, args, advertised, pc>>

\* Retain clearing the registry
Retain_clears(vs, o) == <<>>

\* Retain with the test of the closure inverted
Retain_inverted(vs, o) == SelectSeq(vs, LAMBDA v : v.output = o)

\* views.retain(|v| v.output != output)
Retain(vs, o) == SelectSeq(vs, LAMBDA v : v.output # o)

\* OutputHandler::output_destroyed
output_destroyed(o) ==
  LET dropped == SelectSeq(views, LAMBDA v : v.output = o) IN
  /\ pc = "dispatch"
  /\ views' = Retain(views, o)
  /\ buffers' = DropBuffers(buffers, dropped)
  /\ viewports' = DropViewports(viewports, dropped)
  /\ advertised' = advertised \ {o}
  /\ info' = [info EXCEPT ![o] = None]
  /\ handled' = TRUE
  /\ last' = Event("output_destroyed", o, None, o \in OutputsOf(views), FALSE)
  /\ UNCHANGED <<exit, args, next_id, pc>>

\* Configured with the arguments of set_destination swapped
Configured_swapped_dest(view, size) ==
  LET sized == [view EXCEPT !.width = size[1], !.height = size[2],
                            !.viewport.dest = <<size[2], size[1]>>] IN
  IF sized.first_configure
  THEN [draw(sized) EXCEPT !.first_configure = FALSE]
  ELSE sized

\* Configured rendering the buffer again at the confirmed size
Configured_resizes(view, size) ==
  LET sized == [view EXCEPT !.width = size[1], !.height = size[2],
                            !.viewport.dest = size,
                            !.buffer.width = size[1],
                            !.buffer.height = size[2],
                            !.buffer.pixels = [i \in 1..(size[1] * size[2])
                                                 |-> OpaqueBlack]] IN
  IF sized.first_configure
  THEN [draw(sized) EXCEPT !.first_configure = FALSE]
  ELSE sized

\* Configured with the assignment first_configure = false left out
Configured_keeps_flag(view, size) ==
  LET sized == [view EXCEPT !.width = size[1], !.height = size[2],
                            !.viewport.dest = size] IN
  IF sized.first_configure THEN draw(sized) ELSE sized

\* the view after configure handled new_size for it
Configured(view, size) ==
  LET sized == [view EXCEPT !.width = size[1], !.height = size[2],
                            !.viewport.dest = size] IN
  IF sized.first_configure
  THEN [draw(sized) EXCEPT !.first_configure = FALSE]
  ELSE sized

\* configure treating a layer surface it does not find as closed
configure_exits(l, size) ==
  LET idx == FindLayer(views, l) IN
  /\ pc = "dispatch"
  /\ views' = IF idx = 0 THEN views
              ELSE [views EXCEPT ![idx] = Configured(views[idx], size)]
  /\ exit' = (exit \/ idx = 0)
  /\ handled' = TRUE
  /\ last' = Event("configure", l, size, idx # 0,
                   idx # 0 /\ ~views[idx].first_configure)
  /\ UNCHANGED <<args, info, advertised, next_id, buffers, viewports, pc>>

\* LayerShellHandler::configure
configure(l, size) ==
  LET idx == FindLayer(views, l) IN
  /\ pc = "dispatch"
  /\ views' = IF idx = 0 THEN views
              ELSE [views EXCEPT ![idx] = Configured(views[idx], size)]
  /\ handled' = TRUE
  /\ last' = Event("configure", l, size, idx # 0,
                   idx # 0 /\ ~views[idx].first_configure)
  /\ UNCHANGED <<exit, args, info, advertised, next_id, buffers, viewports,
                 pc>>

\* closed setting the flag only when no other surface is tracked
closed_last_only(l) ==
  /\ pc = "dispatch"
  /\ exit' = (exit \/ Len(views) <= 1)
  /\ handled' = TRUE
  /\ last' = Event("closed", l, None, l \in LayersOf(views), FALSE)
  /\ UNCHANGED <<views, args, info, advertised, next_id, buffers, viewports,
                 pc>>

\* LayerShellHandler::closed
closed(l) ==
  /\ pc = "dispatch"
  /\ exit' = TRUE
  /\ handled' = TRUE
  /\ last' = Event("closed", l, None, l \in LayersOf(views), FALSE)
  /\ UNCHANGED <<views, args, info, advertised, next_id, buffers, viewports,
                 pc>>

\* the layer surfaces created so far
Layers == 1..(next_id - 1)

Next ==
  \/ should_exit
  \/ dispatch_returns
  \/ dispatch_fails
  \/ \E o \in Outputs, size \in LogicalSizes, outcome \in BuildOutcomes :
       new_output(o, size, outcome)
  \/ \E o \in Outputs, size \in LogicalSizes, outcome \in BuildOutcomes :
       update_output(o, size, outcome)
  \/ \E o \in Outputs : output_destroyed(o)
  \/ \E l \in Layers, size \in Sizes : configure(l, size)
  \/ \E l \in Layers : closed(l)

Spec == Init /\ [][Next]_vars

\* the process started without --radius
InitDefaultRadius == Init /\ radius = DEFAULT_RADIUS

\* blocking_dispatch returns once the events it read are handled, and the
\* loop condition is evaluated right after
LiveSpec ==
  /\ InitDefaultRadius
  /\ [][Next]_vars
  /\ WF_vars(should_exit)
  /\ WF_vars(dispatch_returns)

\* ------------------------------------------- the pixel specification
\* (width, height) pairs an output reports: the square ones up to
\* MaxPixelDim, and those one pixel wider or one pixel taller than a square
\* of up to MaxPixelRadius + 1
PixelSizes ==
  {size \in (0..MaxPixelDim) \X (0..MaxPixelDim) :
     \/ size[1] = size[2]
     \/ size[1] - size[2] = 1 /\ size[2] <= MaxPixelRadius + 1
     \/ size[2] - size[1] = 1 /\ size[1] <= MaxPixelRadius + 1}
PixelLogicalSizes == PixelSizes \cup {None}
\* (--alpha, --radius) as given on the command line: the default alpha with
\* every radius up to MaxPixelRadius, and alpha 1.0 without a radius
PixelArgs ==
  ({DEFAULT_ALPHA} \X (0..MaxPixelRadius)) \cup {<<10, DEFAULT_RADIUS>>}

\* DimlandData::new with the arguments of the pixel specification
PixelInit ==
  /\ views = <<>>
  /\ exit = FALSE
  /\ \E arg \in PixelArgs : alpha = arg[1] /\ radius = arg[2]
  /\ info = [o \in Outputs |-> None]
  /\ advertised = {}
  /\ next_id = 1
  /\ buffers = {}
  /\ viewports = {}
  /\ pc = "check"
  /\ handled = FALSE
  /\ last = Event("init", 0, None, FALSE, FALSE)

\* the dispatch loop with one output, which is added and then updated
PixelNext ==
  \/ should_exit
  \/ dispatch_returns
  \/ dispatch_fails
  \/ \E size \in PixelLogicalSizes, outcome \in BuildOutcomes :
       new_output(1, size, outcome)
  \/ \E size \in PixelLogicalSizes, outcome \in BuildOutcomes :
       update_output(1, size, outcome)

PixelSpec == PixelInit /\ [][PixelNext]_vars

\* the first configure for a layer surface that a view of the registry holds
ConfigureKept ==
  \E i \in 1..Len(views), size \in Sizes :
    /\ views[i].first_configure
    /\ configure(views[i].layer, size)

\* the steps of a run in which no closed notification arrives
VisibleNext ==
  \/ should_exit
  \/ dispatch_returns
  \/ dispatch_fails
  \/ \E o \in Outputs, size \in LogicalSizes, outcome \in BuildOutcomes :
       new_output(o, size, outcome)
  \/ \E o \in Outputs, size \in LogicalSizes, outcome \in BuildOutcomes :
       update_output(o, size, outcome)
  \/ \E o \in Outputs : output_destroyed(o)
  \/ \E l \in Layers, size \in Sizes : configure(l, size)

\* the loop condition is evaluated once blocking_dispatch has returned, and
\* the compositor answers the commit of create_view: as long as layer
\* surfaces of the registry wait for their first configure it sends one of
\* them, which blocking_dispatch hands to the handler whenever the loop is
\* in it again
VisibleSpec ==
  /\ InitDefaultRadius
  /\ [][VisibleNext]_vars
  /\ WF_vars(should_exit)
  /\ SF_vars(ConfigureKept)

TypeOK ==
  /\ exit \in BOOLEAN
  /\ pc \in {"check", "dispatch", "done", "aborted"}
  /\ next_id \in 1..(MaxViews + 1)
  /\ advertised \subseteq Outputs

\* ------------------------------------------------------------- claims
\* every layer surface number a run can hand out
AllLayers == 1..(MaxViews + 1)

\* the view of vs whose layer surface is l
ViewOf(vs, l) == vs[FindLayer(vs, l)]

\* the view of vs bound to output o
ViewFor(vs, o) == vs[FindOutput(vs, o)]

\* C1: a surface's buffer is attached at most once in its lifetime, and the
\* attach happens only in the configure handling that takes the surface from
\* first_configure = TRUE to first_configure = FALSE; a surface enters the
\* registry with nothing attached and no later configure attaches again.
C1_AttachOnce ==
  [][views' # views =>
       \A i \in 1..Len(views') :
         /\ views'[i].attached <= 1
         /\ views'[i].layer \notin LayersOf(views) => views'[i].attached = 0
         /\ \A j \in 1..Len(views) :
              (/\ views[j].layer = views'[i].layer
               /\ views[j].attached # views'[i].attached) =>
                 /\ views'[i].attached = views[j].attached + 1
                 /\ views[j].first_configure
                 /\ ~views'[i].first_configure
                 /\ last'.kind = "configure"
                 /\ last'.arg = views'[i].layer]_vars

\* a Live surface was configured again and still has one attach
C1_Witness ==
  /\ last.kind = "configure"
  /\ last.tracked
  /\ last.live
  /\ ViewOf(views, last.arg).attached = 1

C3_ClosedTerminates ==
  /\ [](last.kind = "closed" => exit)
  /\ [][(pc = "check" /\ exit) => pc' = "done"]_vars
  /\ [][pc = "done" => pc' = "done"]_vars
  /\ ((last.kind = "closed" /\ last.tracked) ~> (pc \in {"done", "aborted"}))

\* the loop has ended after a closed notification for one of two tracked
\* surfaces
C3_Witness ==
  /\ pc = "done"
  /\ last.kind = "closed"
  /\ last.tracked
  /\ Len(views) = 2

\* C4 as stated: the flag goes up only in the handling of a closed
\* notification for a layer surface that is in the registry.
C4_OnlyManagedClosed ==
  [][(~exit /\ exit') => (last'.kind = "closed" /\ last'.tracked)]_vars

\* C4 amended: the flag goes up only in the handling of a closed
\* notification, whichever layer surface it names, in the registry or not;
\* no output-added, output-updated, output-removed or configure event sets
\* it.
C4_OnlyClosed ==
  [][(~exit /\ exit') => last'.kind = "closed"]_vars

\* the flag is up after a closed notification for a surface that update_output
\* had replaced
C4_Witness ==
  /\ exit
  /\ last.kind = "closed"
  /\ ~last.tracked
  /\ Len(views) = 1

\* C5: handling configure with new_size (w, h) for a tracked surface leaves
\* it with width = w, height = h and viewport destination (w, h), whether it
\* was Uninitialized or Live; for a surface that was Live nothing else about
\* it changes: no attach, no commit, the same buffer.
C5_ConfigureSetsSize ==
  [][(/\ last'.kind = "configure"
      /\ last'.tracked
      /\ configure(last'.arg, last'.size)) =>
        LET l == last'.arg
            size == last'.size IN
        /\ l \in LayersOf(views')
        /\ ViewOf(views', l).width = size[1]
        /\ ViewOf(views', l).height = size[2]
        /\ ViewOf(views', l).viewport.dest = size
        /\ ~ViewOf(views, l).first_configure =>
             ViewOf(views', l) =
               [ViewOf(views, l) EXCEPT !.width = size[1],
                                        !.height = size[2],
                                        !.viewport.dest = size]]_vars

\* a Live surface has been configured with the size of positive area
C5_Witness ==
  /\ last.kind = "configure"
  /\ last.tracked
  /\ last.live
  /\ last.size = <<MaxDim, MaxDim + 1>>
  /\ ViewOf(views, last.arg).viewport.dest = <<MaxDim, MaxDim + 1>>

\* C6: update_output for a tracked output, when building succeeds, puts a
\* newly built surface in the place of that output's entry: the new entry has
\* first_configure = TRUE, width = height = 0 and nothing attached, a layer
\* surface, buffer and viewport of its own, and the buffer new_output would
\* build from the size the output reports; the tracked outputs, the number
\* of entries and every other entry stay as they were, and the buffer and
\* the viewport of the old surface are destroyed.
C6_UpdateReplaces ==
  [][(/\ last'.kind = "update_output"
      /\ last'.tracked
      /\ pc' # "aborted"
      /\ \E outcome \in BuildOutcomes :
           update_output(last'.arg, last'.size, outcome)) =>
         LET o == last'.arg
             idx == FindOutput(views, o)
             old == views[idx]
             new == views'[idx] IN
         /\ Len(views') = Len(views)
         /\ OutputsOf(views') = OutputsOf(views)
         /\ \A j \in 1..Len(views) : j # idx => views'[j] = views[j]
         /\ new.output = o
         /\ new.first_configure
         /\ new.width = 0 /\ new.height = 0
         /\ new.attached = 0
         /\ new.viewport.dest = None
         /\ new.layer \notin LayersOf(views)
         /\ new.buffer.id \notin buffers
         /\ new.viewport.id \notin viewports
         /\ new.buffer.width = ViewSize(info'[o])[1]
         /\ new.buffer.height = ViewSize(info'[o])[2]
         /\ new.buffer.pixels =
              Canvas(new.buffer.width, new.buffer.height, alpha, radius)
         /\ old.buffer.id \notin buffers'
         /\ old.viewport.id \notin viewports'
         /\ new.buffer.id \in buffers'
         /\ new.viewport.id \in viewports']_vars

\* a tracked output has been updated and its entry is Uninitialized again
C6_Witness ==
  /\ last.kind = "update_output"
  /\ last.tracked
  /\ pc # "aborted"
  /\ ViewFor(views, last.arg).first_configure
  /\ ViewFor(views, last.arg).layer = 2
  /\ buffers = {2}

\* C7 as stated: output_destroyed or update_output for an output that has no
\* entry in the registry leaves the entries, every tracked surface and the
\* exit flag as they were, and the process does not abort.
C7_UntrackedIgnored ==
  [][\A o \in Outputs :
       (/\ o \notin OutputsOf(views)
        /\ \/ output_destroyed(o)
           \/ \E size \in LogicalSizes, outcome \in BuildOutcomes :
                update_output(o, size, outcome)) =>
         /\ views' = views
         /\ exit' = exit
         /\ pc' # "aborted"]_vars

\* C8 as stated: a buffer of zero length is never attached to its layer
\* surface.
C8_ZeroBufferNeverAttached ==
  \A i \in 1..Len(views) :
    views[i].attached > 0 =>
      views[i].buffer.width * views[i].buffer.height > 0

\* C9: the buffer of a surface (declared width and height, pixel content) is
\* the one generated at construction for as long as the surface is in the
\* registry, whatever sizes configure confirms; a surface built while the
\* size of its output was unknown keeps the empty 0x0 buffer, and configure
\* makes it Live with the confirmed size as viewport destination all the
\* same.
C9_BufferFixed ==
  [][/\ views' # views =>
          \A i \in 1..Len(views') :
            /\ \A j \in 1..Len(views) :
                 views[j].layer = views'[i].layer =>
                   views'[i].buffer = views[j].buffer
            /\ Len(views'[i].buffer.pixels) =
                 views'[i].buffer.width * views'[i].buffer.height
            /\ info'[views'[i].output] = None =>
                 /\ views'[i].buffer.width = 0
                 /\ views'[i].buffer.height = 0
                 /\ views'[i].buffer.pixels = <<>>
     /\ (/\ last'.kind = "configure"
         /\ last'.tracked
         /\ configure(last'.arg, last'.size)) =>
           /\ ~ViewOf(views', last'.arg).first_configure
           /\ ViewOf(views', last'.arg).viewport.dest = last'.size]_vars

\* a surface built for an output of unknown size is Live, scaled to the size
\* of positive area, and its buffer is still 0x0
C9_Witness ==
  /\ last.kind = "configure"
  /\ last.tracked
  /\ last.size = <<MaxDim, MaxDim + 1>>
  /\ info[ViewOf(views, last.arg).output] = None
  /\ ~ViewOf(views, last.arg).first_configure
  /\ ViewOf(views, last.arg).viewport.dest = <<MaxDim, MaxDim + 1>>
  /\ ViewOf(views, last.arg).buffer.width = 0
  /\ ViewOf(views, last.arg).buffer.height = 0

\* C10: the buffer handles and the viewport handles that were created and
\* not destroyed are exactly those of the surfaces in the registry.
C10_HandlesOwned ==
  /\ buffers = BufferIdsOf(views)
  /\ viewports = ViewportIdsOf(views)

\* a surface built for an untracked output has been discarded while another
\* surface stays tracked
C10_Witness ==
  /\ last.kind = "update_output"
  /\ ~last.tracked
  /\ pc # "aborted"
  /\ next_id = 3
  /\ Len(views) = 1
  /\ buffers = {1}

\* what create_view comes to when the viewporter or the pool fails
FailedBuilds == {"viewporter", "pool"}

\* C11: when the pool cannot be allocated or the viewport cannot be obtained
\* while new_output or update_output builds a surface, the process aborts:
\* the registry, the exit flag and the handles are as they were before the
\* event (no entry added, none replaced), and the aborted process handles no
\* further event.
C11_BuildFailureAborts ==
  /\ [][(/\ last'.kind \in {"new_output", "update_output"}
         /\ pc = "dispatch"
         /\ \E outcome \in FailedBuilds :
              \/ new_output(last'.arg, last'.size, outcome)
              \/ update_output(last'.arg, last'.size, outcome)) =>
           /\ pc' = "aborted"
           /\ views' = views
           /\ exit' = exit
           /\ buffers' = buffers
           /\ viewports' = viewports]_vars
  /\ [][pc # "aborted"]_vars

\* the process aborted in update_output for an output whose Live entry is
\* still the one new_output built
C11_Witness ==
  /\ pc = "aborted"
  /\ last.kind = "update_output"
  /\ last.tracked
  /\ Len(views) = 1
  /\ views[1].layer = 1
  /\ ~views[1].first_configure

\* the lengths in bytes of the chunks of a canvas
ChunkLens(pixels) == {Len(pixels[k]) : k \in 1..Len(pixels)}

PixelAt(pixels, x, y, w) == pixels[y * w + x + 1]

\* C13: in a buffer of width >= radius and height >= radius, pixel (x, y) is
\* 0xFF000000 exactly when it lies in the radius x radius box of one of the
\* four corners and its squared distance to the rounding center of that
\* corner exceeds radius squared, and is alpha_byte << 24 otherwise; with
\* width = height = 10, radius = 3 and alpha 0.5, pixel (0, 0) is 0xFF000000
\* and pixels (3, 3) and (5, 5) are 0x7F000000.
C13_CornerMask ==
  \A i \in 1..Len(views) :
    LET w == views[i].buffer.width
        h == views[i].buffer.height
        pixels == views[i].buffer.pixels
        \* the rounding center (cx, cy) of each corner and the top left
        \* pixel (x0, y0) of its box
        RoundingCorners ==
          { [cx |-> radius,     cy |-> radius,     x0 |-> 0, y0 |-> 0],
            [cx |-> w - radius, cy |-> radius,     x0 |-> w - radius, y0 |-> 0],
            [cx |-> radius,     cy |-> h - radius, x0 |-> 0, y0 |-> h - radius],
            [cx |-> w - radius, cy |-> h - radius,
             x0 |-> w - radius, y0 |-> h - radius] }
        RoundedOff(x, y) ==
          \E c \in RoundingCorners :
            /\ x \in c.x0..(c.x0 + radius - 1)
            /\ y \in c.y0..(c.y0 + radius - 1)
            /\ (x - c.cx) * (x - c.cx) + (y - c.cy) * (y - c.cy)
                 > radius * radius IN
    /\ (w >= radius /\ h >= radius) =>
         \A x \in 0..(w - 1), y \in 0..(h - 1) :
           PixelAt(pixels, x, y, w) =
             IF RoundedOff(x, y)
             THEN <<0, 0, 0, 255>>
             ELSE <<0, 0, 0, (alpha * 255) \div 10>>
    /\ (w = 10 /\ h = 10 /\ radius = 3 /\ alpha = 5) =>
         /\ PixelAt(pixels, 0, 0, w) = <<0, 0, 0, 255>>
         /\ PixelAt(pixels, 3, 3, w) = <<0, 0, 0, 127>>
         /\ PixelAt(pixels, 5, 5, w) = <<0, 0, 0, 127>>

\* a 10 x 10 buffer rendered with radius 3 and alpha 0.5: its corner pixel
\* is opaque, the pixel at the first rounding center is not
C13_Witness ==
  /\ radius = 3
  /\ alpha = 5
  /\ Len(views) = 1
  /\ views[1].buffer.width = 10
  /\ views[1].buffer.height = 10
  /\ PixelAt(views[1].buffer.pixels, 0, 0, 10) = OpaqueBlack
  /\ PixelAt(views[1].buffer.pixels, 9, 0, 10) = OpaqueBlack
  /\ PixelAt(views[1].buffer.pixels, 3, 3, 10) = <<0, 0, 0, 127>>

\* C14: with radius 0 every pixel of every buffer is alpha_byte << 24, the
\* bytes 0, 0, 0, floor(alpha * 255), whatever the width and the height: the
\* corner test holds for no pixel.
C14_FlatFill ==
  radius = 0 =>
    \A i \in 1..Len(views) :
      LET w == views[i].buffer.width
          h == views[i].buffer.height IN
      \A x \in 0..(w - 1), y \in 0..(h - 1) :
        /\ PixelAt(views[i].buffer.pixels, x, y, w) =
             <<0, 0, 0, (alpha * 255) \div 10>>
        /\ ~CornerCut(x, y, w, h, radius)

\* a buffer one pixel wider than tall rendered with alpha 0.5 and radius 0:
\* its four corner pixels are 0x7F000000
C14_Witness ==
  /\ radius = 0
  /\ alpha = 5
  /\ Len(views) = 1
  /\ views[1].buffer.width = 4
  /\ views[1].buffer.height = 3
  /\ PixelAt(views[1].buffer.pixels, 0, 0, 4) = <<0, 0, 0, 127>>
  /\ PixelAt(views[1].buffer.pixels, 3, 0, 4) = <<0, 0, 0, 127>>
  /\ PixelAt(views[1].buffer.pixels, 0, 2, 4) = <<0, 0, 0, 127>>
  /\ PixelAt(views[1].buffer.pixels, 3, 2, 4) = <<0, 0, 0, 127>>

\* C15 as stated: whatever the width, the height and the radius, no
\* subtraction that the corner test evaluates for a pixel of a buffer goes
\* below zero.
C15_NoUnderflow ==
  \A i \in 1..Len(views) :
    ~CanvasOverflows(views[i].buffer.width, views[i].buffer.height, radius)

\* C16: every surface in the registry is either Uninitialized
\* (first_configure = TRUE) with its buffer never attached and the one commit
\* of create_view made, or Live with its buffer attached exactly once and
\* committed; the attach and the change to Live happen in the same step, the
\* handling of a configure for that surface.
C16_UninitializedOrLive ==
  /\ [](\A i \in 1..Len(views) :
          IF views[i].first_configure
          THEN views[i].attached = 0 /\ views[i].commits = 1
          ELSE views[i].attached = 1 /\ views[i].commits = 2)
  /\ [][views' # views =>
          \A i \in 1..Len(views'), j \in 1..Len(views) :
            views[j].layer = views'[i].layer =>
              /\ (views'[i].attached # views[j].attached) <=>
                   (views'[i].first_configure # views[j].first_configure)
              /\ views'[i].attached # views[j].attached =>
                   /\ last'.kind = "configure"
                   /\ last'.arg = views'[i].layer]_vars

\* the first of two surfaces is Live, the second has been built and not
\* configured yet
C16_Witness ==
  /\ Len(views) = 2
  /\ ~views[1].first_configure
  /\ views[1].attached = 1
  /\ views[2].first_configure
  /\ views[2].attached = 0
  /\ views[2].commits = 1
  /\ last.kind = "new_output"

\* C17: a configure for a layer surface that is not in the registry any more
\* (update_output replaced it, or output_destroyed removed it) changes
\* nothing: every entry keeps its width, height, viewport destination,
\* first_configure and attach count, so the replacement built for the same
\* output stays Uninitialized; the exit flag and the handles stay too.
C17_StaleConfigureIgnored ==
  [][(/\ last'.kind = "configure"
      /\ last'.arg \notin LayersOf(views)
      /\ \E size \in Sizes : configure(last'.arg, size)) =>
        /\ views' = views
        /\ exit' = exit
        /\ buffers' = buffers
        /\ viewports' = viewports
        /\ pc' = pc]_vars

\* the surface of the output was replaced by update_output, and a configure
\* for the old surface has been handled: the replacement is Uninitialized
C17_Witness ==
  /\ last.kind = "configure"
  /\ ~last.tracked
  /\ last.arg = 1
  /\ Len(views) = 1
  /\ views[1].layer = 2
  /\ views[1].first_configure
  /\ views[1].attached = 0
  /\ views[1].viewport.dest = None

\* C18: in a run without closed notification, with a compositor that
\* eventually sends a configure for every layer surface that is created and
\* kept, and once the output notifications have ended (a run builds at most
\* MaxViews surfaces), there comes a point from which on every surface in
\* the registry, one for each tracked output, is Live with its buffer
\* attached once and committed, unless the process has aborted.
C18_EventuallyVisible ==
  <>[](\/ pc = "aborted"
       \/ \A i \in 1..Len(views) :
            /\ ~views[i].first_configure
            /\ views[i].attached = 1
            /\ views[i].commits = 2)

\* both outputs are tracked and both surfaces are Live, the second one since
\* the configure handled last; no closed notification has arrived
C18_Witness ==
  /\ Len(views) = 2
  /\ \A i \in 1..2 :
       /\ ~views[i].first_configure
       /\ views[i].attached = 1
       /\ views[i].commits = 2
  /\ last.kind = "configure"
  /\ last.arg = 2
  /\ ~last.live
  /\ ~exit
  /\ pc = "check"

C20_MirrorSymmetric ==
  \A i \in 1..Len(views) :
    LET w == views[i].buffer.width
        h == views[i].buffer.height
        pixels == views[i].buffer.pixels
        Overridden(x, y) == PixelAt(pixels, x, y, w) = <<0, 0, 0, 255>> IN
    (w >= 2 * radius /\ h >= 2 * radius) =>
      \A x \in 0..(w - 1), y \in 0..(h - 1) :
        /\ Overridden(x, y) <=> Overridden(w - 1 - x, y)
        /\ Overridden(x, y) <=> Overridden(x, h - 1 - y)

====
